---- MODULE Spec2Model ----
(***************************************************************************)
(* A model of main.py of c3-sdk-python-example-eyescream: the module-level *)
(* names, main, initState, acceptImage and gatherState, over a filesystem  *)
(* of four working directories and the host's key/value state c3.state.    *)
(*                                                                         *)
(* Bytes are modelled as short tuples <<tag, n>>; the empty byte sequence  *)
(* is <<>>.  A path is a record of the base it is resolved against (the    *)
(* process's working directory for the *RelPath names, the directory of    *)
(* main.py for the *AbsPath names) and the working directory it names.     *)
(* A file name is a sequence of tokens, so that the substring test of      *)
(* gatherState is computed and not assumed.                                *)
(***************************************************************************)
EXTENDS Integers, Sequences, FiniteSets, Bags, TLC

\* ------------------------------------------------------------------ bounds

\* image handles the host may pass are numbered 1..MaxImg
MaxImg == 2
\* call slots of the host's serve loop (two calls can be in flight at most)
NumCalls == 2
\* longest aug_images sequence of the PersistedState loaded at startup
MaxAugLen == 1
\* most files one run of the augmentation routine writes
MaxGen == 1

\* ------------------------------------------------- module-level names (1-28)

standardImgFormat == "JPEG"

\* the names bound in the module's namespace: the imports of lines 1-5, the
\* assignments of lines 7-28 and the functions defined by def
ModuleGlobals ==
    {"sdk", "gd", "Image", "io", "os", "c3",
     "PillowImageRequired", "InvalidImage", "C3Required", "TrainingFailed",
     "standardImgFormat", "tmpDir", "libDir",
     "inputRelPath", "augRelPath", "unaugRelPath", "networkRelPath",
     "scriptFileRelPath", "inputAbsPath", "augAbsPath", "unaugAbsPath",
     "networkAbsPath", "oldNetworkAbsPath", "newNetworkAbsPath",
     "scriptFileAbsPath", "augImagesKey", "networkKey",
     "main", "initState", "writeBytesToFile", "readBytesFromFile",
     "imageFromBytes", "imageToBytes", "acceptImage", "gatherState"}

inputRelPath == [base |-> "cwd", dir |-> "input"]
augRelPath == [base |-> "cwd", dir |-> "aug_64x64"]
unaugRelPath == [base |-> "cwd", dir |-> "unaug_64x64"]
networkRelPath == [base |-> "cwd", dir |-> "network"]
inputAbsPath == [base |-> "script", dir |-> "input"]
augAbsPath == [base |-> "script", dir |-> "aug_64x64"]
unaugAbsPath == [base |-> "script", dir |-> "unaug_64x64"]
networkAbsPath == [base |-> "script", dir |-> "network"]
oldNetworkAbsPath == "old.net"
newNetworkAbsPath == "adversarial.net"
augImagesKey == "aug_images"
networkKey == "network"

RelPaths == {inputRelPath, augRelPath, unaugRelPath, networkRelPath}
AbsPaths == {inputAbsPath, augAbsPath, unaugAbsPath, networkAbsPath}

\* ------------------------------------------------------------ value domains

Calls == 1..NumCalls
EmptyBytes == <<>>
NoFiles == <<>>

\* an image handle: None, or an object whose verify() returns a true value,
\* returns None (what Pillow's Image.verify returns for a sound image, having
\* raised for an unsound one), returns False, or raises
VerifyOutcomes == {"truthy", "none", "false", "raises"}
\* None has no verify attribute: calling it raises
NoneImg == [none |-> TRUE, id |-> 0, verify |-> "raises"]
Images == [none : {FALSE}, id : 1..MaxImg, verify : VerifyOutcomes]

\* files of the augmented-images tree: in the root or in a subdirectory
AugNames ==
    { [id |-> 1, sub |-> FALSE, file |-> <<"x", ".", "JPEG">>],
      [id |-> 2, sub |-> TRUE,  file |-> <<"z", ".", "JPEG">>],
      [id |-> 3, sub |-> FALSE, file |-> <<"y", ".", "jpg">>] }
InputName == <<"input", ".", standardImgFormat>>

\* byte contents
PreBytes(f) == <<"pre", f.id>>
StateBlobs == {<<"blob", 1>>}
LoadedNetwork == <<"net", 1>>
Encode(i) == <<"JPEG", i.id>>
AugBytes(b) == <<"aug", b[2]>>

RECURSIVE SeqsUpTo(_, _)
SeqsUpTo(S, n) ==
    IF n = 0 THEN {<<>>}
    ELSE LET shorter == SeqsUpTo(S, n - 1)
         IN shorter \cup {Append(s, x) : s \in {q \in shorter : Len(q) = n - 1}, x \in S}

\* s contains sub as a contiguous run: Python's `sub in s` on strings
Contains(sub, s) ==
    \E k \in 1..(Len(s) - Len(sub) + 1) : SubSeq(s, k, k + Len(sub) - 1) = sub

VARIABLES
    c3,              \* the module global c3: "None" or "set"
    state,           \* c3.state, the host's PersistedState: key -> value
    cwdIsScriptDir,  \* the process runs in the directory of main.py
    dirs,            \* the directories that exist
    inputFiles,      \* files of inputAbsPath: name -> bytes
    augFiles,        \* files of the augAbsPath tree: name -> bytes
    unaugFiles,      \* files of unaugAbsPath: name -> bytes
    netFiles,        \* files of networkAbsPath: name -> bytes
    mainPc,          \* where main() is
    mainErr,         \* the exception that ended main(), or "none"
    pc,              \* per call slot: the statement the call is at
    img,             \* per call slot: the argument of the call
    res,             \* per call slot: how the last call ended
    pre,             \* per call slot: c3.state when the call was dispatched
    hist,            \* per call slot: the phases the call went through
    consumed,        \* per call slot: the input bytes its augmentation read
    todo             \* per call slot: the files gatherState's walk has yet to visit

fsVars == <<dirs, inputFiles, augFiles, unaugFiles, netFiles>>
callVars == <<pc, img, res, pre, hist, consumed, todo>>
vars == <<c3, state, cwdIsScriptDir, dirs, inputFiles, augFiles, unaugFiles,
          netFiles, mainPc, mainErr, pc, img, res, pre, hist, consumed, todo>>

\* --------------------------------------------------------------- filesystem

Resolve(p) == IF p.base = "cwd" /\ cwdIsScriptDir THEN [p EXCEPT !.base = "script"] ELSE p
Put(files, name, b) == [n \in DOMAIN files \cup {name} |-> IF n = name THEN b ELSE files[n]]

\* ------------------------------------------------------------- initial state

InitDirs ==
    /\ cwdIsScriptDir \in BOOLEAN
    /\ \E A \in SUBSET AbsPaths, R \in {{}, RelPaths} :
          /\ cwdIsScriptDir => R = {}
          /\ dirs = A \cup R

InitFiles ==
    /\ inputFiles = NoFiles
    /\ unaugFiles = NoFiles
    /\ \E S \in {{}, {f \in AugNames : f.sub}, AugNames} :
          /\ S # {} => augAbsPath \in dirs
          /\ augFiles = [f \in S |-> PreBytes(f)]
    /\ \E S \in SUBSET {oldNetworkAbsPath, newNetworkAbsPath} :
          /\ S # {} => networkAbsPath \in dirs
          /\ netFiles = [n \in S |-> <<"net", 0>>]

InitState ==
    \E K \in SUBSET {networkKey, augImagesKey} :
      \E a \in SeqsUpTo(StateBlobs, MaxAugLen) :
        state = [k \in K |-> IF k = networkKey THEN LoadedNetwork ELSE a]

InitCalls ==
    /\ pc = [t \in Calls |-> "idle"]
    /\ img = [t \in Calls |-> NoneImg]
    /\ res = [t \in Calls |-> "none"]
    /\ pre = [t \in Calls |-> NoFiles]
    /\ hist = [t \in Calls |-> <<>>]
    /\ consumed = [t \in Calls |-> EmptyBytes]
    /\ todo = [t \in Calls |-> {}]

Init ==
    /\ c3 = "None"
    /\ mainPc = "start"
    /\ mainErr = "none"
    /\ InitDirs
    /\ InitFiles
    /\ InitState
    /\ InitCalls

\* ------------------------------------------------------------ main (30-35)

\* lines 31-33: c3 = sdk.NewC3(); c3.registerMethod("acceptImage", acceptImage)
MainNewC3 ==
    /\ mainPc = "start"
    /\ c3' = "set"
    /\ mainPc' = "init"
    /\ UNCHANGED <<state, cwdIsScriptDir, fsVars, mainErr, callVars>>

\* ------------------------------------------------------- initState (37-62)

\* lines 43-50: every *RelPath that does not exist is created
MakeDirs(ds) == ds \cup {Resolve(p) : p \in RelPaths}

\* lines 52-56: the loop body runs once per entry of aug_images; its first
\* run ends the call: Image.open is handed bytes where it takes a file name or
\* a file object, and when it returns, the file name of line 56 adds the int
\* idx to a str, a TypeError
RehydrateRaises == augImagesKey \in DOMAIN state /\ Len(state[augImagesKey]) > 0
RehydrateErrors == {"OSError", "TypeError"}

\* lines 58-60
NetworkToWrite == IF networkKey \in DOMAIN state THEN state[networkKey] ELSE EmptyBytes

\* lines 64-67: open(fileName, 'wb+') needs the directory
writeBytesToFile(b, fileName, e) ==
    IF networkAbsPath \in dirs'
    THEN /\ netFiles' = Put(netFiles, fileName, b)
         /\ e = "none"
    ELSE /\ e = "FileNotFoundError"
         /\ UNCHANGED netFiles

\* initState as it would be with the test of c3 made after the directories
initStateChecksLate(e) ==
    /\ dirs' = MakeDirs(dirs)
    /\ UNCHANGED <<state, inputFiles, augFiles, unaugFiles>>
    /\ IF c3 = "None"
       THEN /\ e = "C3Required"
            /\ UNCHANGED netFiles
       ELSE IF RehydrateRaises
       THEN /\ e \in RehydrateErrors
            /\ UNCHANGED netFiles
       ELSE writeBytesToFile(NetworkToWrite, oldNetworkAbsPath, e)

\* initState as it would be if it stored the network it is about to write
\* back into c3.state
initStateStoresNetwork(e) ==
    IF c3 = "None"
    THEN /\ e = "C3Required"
         /\ UNCHANGED <<state, fsVars>>
    ELSE /\ dirs' = MakeDirs(dirs)
         /\ state' = Put(state, networkKey, NetworkToWrite)
         /\ UNCHANGED <<inputFiles, augFiles, unaugFiles>>
         /\ IF RehydrateRaises
            THEN /\ e \in RehydrateErrors
                 /\ UNCHANGED netFiles
            ELSE writeBytesToFile(NetworkToWrite, oldNetworkAbsPath, e)

\* initState() ending with exception e ("none": it returned)
initState(e) ==
    IF c3 = "None"
    THEN /\ e = "C3Required"
         /\ UNCHANGED <<state, fsVars>>
    ELSE /\ dirs' = MakeDirs(dirs)
         /\ UNCHANGED <<state, inputFiles, augFiles, unaugFiles>>
         /\ IF RehydrateRaises
            THEN /\ e \in RehydrateErrors
                 /\ UNCHANGED netFiles
            ELSE writeBytesToFile(NetworkToWrite, oldNetworkAbsPath, e)

Exceptions ==
    {"none", "C3Required", "OSError", "TypeError", "FileNotFoundError"}

\* line 34-35: initState(), then c3.serve() when it returned
MainInitState ==
    /\ mainPc = "init"
    /\ \E e \in Exceptions :
          /\ initState(e)
          /\ mainErr' = e
          /\ mainPc' = IF e = "none" THEN "serve" ELSE "crashed"
    /\ UNCHANGED <<c3, cwdIsScriptDir, callVars>>

\* ----------------------------------------------------- acceptImage (85-112)

\* the call in slot t ends with exception e
Raise(t, e) ==
    /\ pc' = [pc EXCEPT ![t] = "done"]
    /\ res' = [res EXCEPT ![t] = e]

\* the host takes the outcome of the call in slot t; the slot is free again
Return(t) ==
    /\ pc[t] = "done"
    /\ pc' = [pc EXCEPT ![t] = "idle"]
    /\ img' = [img EXCEPT ![t] = NoneImg]
    /\ res' = [res EXCEPT ![t] = "none"]
    /\ pre' = [pre EXCEPT ![t] = NoFiles]
    /\ hist' = [hist EXCEPT ![t] = <<>>]
    /\ consumed' = [consumed EXCEPT ![t] = EmptyBytes]
    /\ todo' = [todo EXCEPT ![t] = {}]
    /\ UNCHANGED <<c3, state, cwdIsScriptDir, fsVars, mainPc, mainErr>>

Enter(t, phase) == hist' = [hist EXCEPT ![t] = Append(@, phase)]

\* the host hands acceptImage(i) to slot t
Dispatch(t, i) ==
    /\ pc[t] = "idle"
    /\ pc' = [pc EXCEPT ![t] = "check"]
    /\ img' = [img EXCEPT ![t] = i]
    /\ res' = [res EXCEPT ![t] = "pending"]
    /\ pre' = [pre EXCEPT ![t] = state]
    /\ hist' = [hist EXCEPT ![t] = <<>>]
    /\ consumed' = [consumed EXCEPT ![t] = EmptyBytes]
    /\ todo' = [todo EXCEPT ![t] = {}]
    /\ UNCHANGED <<c3, state, cwdIsScriptDir, fsVars>>

\* c3.serve(): one call at a time
Serve ==
    /\ mainPc = "serve"
    /\ \A u \in Calls : pc[u] = "idle"
    /\ \E i \in Images \cup {NoneImg} : Dispatch(1, i)
    /\ UNCHANGED <<mainPc, mainErr>>

\* acceptImage without the test of lines 86-88
CheckNoneSkipped(t) ==
    /\ pc[t] = "check"
    /\ pc' = [pc EXCEPT ![t] = "validate"]
    /\ UNCHANGED <<c3, state, cwdIsScriptDir, fsVars, mainPc, mainErr,
                   img, res, pre, hist, consumed, todo>>

\* lines 86-88
CheckNone(t) ==
    /\ pc[t] = "check"
    /\ IF img[t].none
       THEN Raise(t, "PillowImageRequired")
       ELSE /\ pc' = [pc EXCEPT ![t] = "validate"]
            /\ UNCHANGED res
    /\ UNCHANGED <<c3, state, cwdIsScriptDir, fsVars, mainPc, mainErr,
                   img, pre, hist, consumed, todo>>

\* lines 90-97: a verify() that returns a false value raises InvalidImage
\* inside the try, and the handler turns every exception into InvalidImage
VerifiedUnlessRaises(i) == i.verify # "raises"
Verified(i) == i.verify = "truthy"

Validate(t) ==
    /\ pc[t] = "validate"
    /\ Enter(t, "Validating")
    /\ IF Verified(img[t])
       THEN /\ pc' = [pc EXCEPT ![t] = "write"]
            /\ UNCHANGED res
       ELSE Raise(t, "InvalidImage")
    /\ UNCHANGED <<c3, state, cwdIsScriptDir, fsVars, mainPc, mainErr,
                   img, pre, consumed, todo>>

\* line 99: img.save(inputAbsPath/input.JPEG, format="JPEG")
WriteInput(t) ==
    /\ pc[t] = "write"
    /\ Enter(t, "Writing-Input")
    /\ IF inputAbsPath \in dirs
       THEN /\ inputFiles' = Put(inputFiles, InputName, Encode(img[t]))
            /\ pc' = [pc EXCEPT ![t] = "augment"]
            /\ UNCHANGED res
       ELSE /\ Raise(t, "FileNotFoundError")
            /\ UNCHANGED inputFiles
    /\ UNCHANGED <<c3, state, cwdIsScriptDir, dirs, augFiles, unaugFiles, netFiles,
                   mainPc, mainErr, img, pre, consumed, todo>>

\* line 102: gd.gen(inputAbsPath, augAbsPath, unaugAbsPath), the external
\* augmentation routine: it reads the input directory and writes files into
\* the two output directories, or raises
GenNames == {f \in AugNames : ~f.sub}
GenWrites == {W \in SUBSET GenNames : Cardinality(W) <= MaxGen}

Augment(t) ==
    /\ pc[t] = "augment"
    /\ Enter(t, "Augmenting")
    /\ \/ /\ Raise(t, "GenError")
          /\ UNCHANGED <<augFiles, unaugFiles, consumed>>
       \/ \E W \in GenWrites :
            /\ W # {} => (augAbsPath \in dirs /\ unaugAbsPath \in dirs)
            /\ consumed' = [consumed EXCEPT ![t] = inputFiles[InputName]]
            /\ augFiles' = [f \in DOMAIN augFiles \cup W |->
                              IF f \in W THEN AugBytes(inputFiles[InputName])
                              ELSE augFiles[f]]
            /\ unaugFiles' = [f \in DOMAIN unaugFiles \cup W |->
                              IF f \in W THEN <<"unaug", inputFiles[InputName][2]>>
                              ELSE unaugFiles[f]]
            /\ pc' = [pc EXCEPT ![t] = "train"]
            /\ UNCHANGED res
    /\ UNCHANGED <<c3, state, cwdIsScriptDir, dirs, inputFiles, netFiles,
                   mainPc, mainErr, img, pre, todo>>

\* the training step as it would be with a script that never exits:
\* subprocess.run has no timeout and blocks the call
TrainHangs(t) ==
    /\ pc[t] = "train"
    /\ UNCHANGED vars

\* lines 107-110: the name subprocess is looked up in the module's namespace
\* when line 107 runs; only a bound name gets as far as starting the script
\* and looking at its exit code
ExitCodes == 0..1
TrainedBytes(t) == <<"net", 2>>

Train(t) ==
    /\ pc[t] = "train"
    /\ Enter(t, "Training")
    /\ IF "subprocess" \notin ModuleGlobals
       THEN /\ Raise(t, "NameError")
            /\ UNCHANGED netFiles
       ELSE \E rc \in ExitCodes :
              IF rc # 0
              THEN /\ Raise(t, "TrainingFailed")
                   /\ UNCHANGED netFiles
              ELSE /\ netFiles' = Put(netFiles, newNetworkAbsPath, TrainedBytes(t))
                   /\ pc' = [pc EXCEPT ![t] = "gather"]
                   /\ UNCHANGED res
    /\ UNCHANGED <<c3, state, cwdIsScriptDir, dirs, inputFiles, augFiles, unaugFiles,
                   mainPc, mainErr, img, pre, consumed, todo>>

\* ----------------------------------------------------- gatherState (114-123)

\* line 122: "." + standardImgFormat in file
Matches(f) == Contains(<<".", standardImgFormat>>, f.file)

\* gatherState as it would be with line 118 moved before line 116
GatherNetworkResetsFirst(t) ==
    /\ pc[t] = "gather"
    /\ Enter(t, "Gathering")
    /\ IF newNetworkAbsPath \notin DOMAIN netFiles
       THEN /\ Raise(t, "FileNotFoundError")
            /\ state' = IF c3 = "None" THEN state ELSE Put(state, augImagesKey, <<>>)
       ELSE IF c3 = "None"
       THEN /\ Raise(t, "AttributeError")
            /\ UNCHANGED state
       ELSE /\ state' = Put(Put(state, augImagesKey, <<>>),
                            networkKey, netFiles[newNetworkAbsPath])
            /\ pc' = [pc EXCEPT ![t] = "gather_reset"]
            /\ UNCHANGED res
    /\ UNCHANGED <<c3, cwdIsScriptDir, fsVars, mainPc, mainErr,
                   img, pre, consumed, todo>>

\* gatherState as it would be if it also made the new weights the prior
\* weights of the next training run
GatherNetworkUpdatesOld(t) ==
    /\ pc[t] = "gather"
    /\ Enter(t, "Gathering")
    /\ IF newNetworkAbsPath \notin DOMAIN netFiles
       THEN /\ Raise(t, "FileNotFoundError")
            /\ UNCHANGED <<state, netFiles>>
       ELSE IF c3 = "None"
       THEN /\ Raise(t, "AttributeError")
            /\ UNCHANGED <<state, netFiles>>
       ELSE /\ state' = Put(state, networkKey, netFiles[newNetworkAbsPath])
            /\ netFiles' = Put(netFiles, oldNetworkAbsPath, netFiles[newNetworkAbsPath])
            /\ pc' = [pc EXCEPT ![t] = "gather_reset"]
            /\ UNCHANGED res
    /\ UNCHANGED <<c3, cwdIsScriptDir, dirs, inputFiles, augFiles, unaugFiles,
                   mainPc, mainErr, img, pre, consumed, todo>>

\* line 116: c3.state[networkKey] = open(newNetworkAbsPath, "rb+").read()
GatherNetwork(t) ==
    /\ pc[t] = "gather"
    /\ Enter(t, "Gathering")
    /\ IF newNetworkAbsPath \notin DOMAIN netFiles
       THEN /\ Raise(t, "FileNotFoundError")
            /\ UNCHANGED state
       ELSE IF c3 = "None"
       THEN /\ Raise(t, "AttributeError")
            /\ UNCHANGED state
       ELSE /\ state' = Put(state, networkKey, netFiles[newNetworkAbsPath])
            /\ pc' = [pc EXCEPT ![t] = "gather_reset"]
            /\ UNCHANGED res
    /\ UNCHANGED <<c3, cwdIsScriptDir, fsVars, mainPc, mainErr,
                   img, pre, consumed, todo>>

\* gatherState appending to the sequence already in c3.state
GatherKeepsOld(t) ==
    /\ pc[t] = "gather_reset"
    /\ state' = IF augImagesKey \in DOMAIN state THEN state
                ELSE Put(state, augImagesKey, <<>>)
    /\ todo' = [todo EXCEPT ![t] = DOMAIN augFiles]
    /\ pc' = [pc EXCEPT ![t] = "gather_walk"]
    /\ UNCHANGED <<c3, cwdIsScriptDir, fsVars, mainPc, mainErr,
                   img, res, pre, hist, consumed>>

\* lines 118-120: c3.state[augImagesKey] = [], and os.walk lists the tree
\* (nothing when the directory does not exist)
GatherReset(t) ==
    /\ pc[t] = "gather_reset"
    /\ state' = Put(state, augImagesKey, <<>>)
    /\ todo' = [todo EXCEPT ![t] = DOMAIN augFiles]
    /\ pc' = [pc EXCEPT ![t] = "gather_walk"]
    /\ UNCHANGED <<c3, cwdIsScriptDir, fsVars, mainPc, mainErr,
                   img, res, pre, hist, consumed>>

\* lines 121-123: the next file of the walk, the root's files before the
\* subdirectory's, in the order the directory listing gives them.  Line 71
\* opens the file for update ("rb+"): the read returns the bytes, or raises
\* when the file may not be opened that way
GatherVisit(t) ==
    /\ pc[t] = "gather_walk"
    /\ \E f \in todo[t] :
          /\ f.sub => \A g \in todo[t] : g.sub
          /\ \/ /\ todo' = [todo EXCEPT ![t] = @ \ {f}]
                /\ state' = IF Matches(f)
                            THEN [state EXCEPT ![augImagesKey] = Append(@, augFiles[f])]
                            ELSE state
                /\ UNCHANGED <<pc, res>>
             \/ /\ Matches(f)
                /\ Raise(t, "OSError")
                /\ UNCHANGED <<state, todo>>
    /\ UNCHANGED <<c3, cwdIsScriptDir, fsVars, mainPc, mainErr,
                   img, pre, hist, consumed>>

\* the walk is over: gatherState returns, and so does the acceptImage that
\* called it (line 112)
GatherReturn(t) ==
    /\ pc[t] = "gather_walk"
    /\ todo[t] = {}
    /\ pc' = [pc EXCEPT ![t] = "done"]
    /\ res' = [res EXCEPT ![t] = "ok"]
    /\ UNCHANGED <<c3, state, cwdIsScriptDir, fsVars, mainPc, mainErr,
                   img, pre, hist, consumed, todo>>

\* ------------------------------------------------------------ specifications

Step(t) ==
    \/ CheckNone(t)
    \/ Validate(t)
    \/ WriteInput(t)
    \/ Augment(t)
    \/ Train(t)
    \/ Return(t)

GatherStep(t) ==
    \/ GatherNetwork(t)
    \/ GatherReset(t)
    \/ GatherVisit(t)
    \/ GatherReturn(t)

\* the process: main(), and the calls the serve loop hands out one at a time
Next ==
    \/ MainNewC3
    \/ MainInitState
    \/ Serve
    \/ \E t \in Calls : Step(t)

Spec == Init /\ [][Next]_vars

\* the same process, with the interpreter running every statement of a call
\* it has started: a call that can take a step does take it
SpecLive == Init /\ [][Next]_vars /\ WF_vars(\E t \in Calls : Step(t))

\* the process under a host whose serve loop hands out calls concurrently
ServeConcurrently ==
    /\ mainPc = "serve"
    /\ \E t \in Calls, i \in Images \cup {NoneImg} : Dispatch(t, i)
    /\ UNCHANGED <<mainPc, mainErr>>

NextConc ==
    \/ MainNewC3
    \/ MainInitState
    \/ ServeConcurrently
    \/ \E t \in Calls : Step(t)

SpecConc == Init /\ [][NextConc]_vars

\* the module imported and its functions called directly, one at a time, with
\* the global c3 set by the importer or left None.  mainPc records the calls
\* made: "inited" after initState, "roundtrip" when gatherState was called
\* right after initState.
InitUnit ==
    /\ c3 \in {"None", "set"}
    /\ mainPc = "imported"
    /\ mainErr = "none"
    /\ InitDirs
    /\ InitFiles
    /\ InitState
    /\ InitCalls

AllIdle == \A u \in Calls : pc[u] = "idle"
UnitPcs == {"imported", "inited", "roundtrip"}

CallInitState ==
    /\ mainPc \in UnitPcs
    /\ AllIdle
    /\ \E e \in Exceptions :
          /\ initState(e)
          /\ mainErr' = e
    /\ mainPc' = "inited"
    /\ UNCHANGED <<c3, cwdIsScriptDir, callVars>>

CallAcceptImage ==
    /\ AllIdle
    /\ \E i \in Images \cup {NoneImg} : Dispatch(1, i)
    /\ mainPc' = "imported"
    /\ mainErr' = "none"

CallGatherState ==
    /\ AllIdle
    /\ pc' = [pc EXCEPT ![1] = "gather"]
    /\ img' = [img EXCEPT ![1] = NoneImg]
    /\ res' = [res EXCEPT ![1] = "pending"]
    /\ pre' = [pre EXCEPT ![1] = state]
    /\ hist' = [hist EXCEPT ![1] = <<>>]
    /\ consumed' = [consumed EXCEPT ![1] = EmptyBytes]
    /\ todo' = [todo EXCEPT ![1] = {}]
    /\ mainPc' = IF mainPc = "inited" THEN "roundtrip" ELSE "imported"
    /\ UNCHANGED <<c3, state, cwdIsScriptDir, fsVars, mainErr>>

NextUnit ==
    \/ CallInitState
    \/ CallAcceptImage
    \/ CallGatherState
    \/ \E t \in Calls : Step(t)
    \/ \E t \in Calls : GatherStep(t)

SpecUnit == InitUnit /\ [][NextUnit]_vars

\* startup alone, either way: main() run as the program, or initState called
\* directly by an importer that set c3 or left it None
InitStart == Init \/ InitUnit

NextStart ==
    \/ MainNewC3
    \/ MainInitState
    \/ CallInitState

SpecStart == InitStart /\ [][NextStart]_vars

\* ------------------------------------------------------------------ claims

Range(s) == {s[k] : k \in 1..Len(s)}
Last(s) == s[Len(s)]
BagOfSeq(s) == [x \in Range(s) |-> Cardinality({k \in 1..Len(s) : s[k] = x})]
BagOfFiles(F, files) ==
    [b \in {files[f] : f \in F} |-> Cardinality({f \in F : files[f] = b})]
Phases == <<"Validating", "Writing-Input", "Augmenting", "Training", "Gathering">>
IsPrefix(h, s) == Len(h) <= Len(s) /\ \A k \in 1..Len(h) : h[k] = s[k]
HasJpegSuffix(f) ==
    \E k \in 1..(Len(f.file) - 1) : f.file[k] = "." /\ f.file[k + 1] = "JPEG"
Ended(t) == pc[t] = "done"
EndedInTraining(t) == Ended(t) /\ hist[t] # <<>> /\ Last(hist[t]) = "Training"

\* C1: a call whose training step did not end with exit code 0 fails with
\* TrainingFailed, without gatherState, and with PersistedState (both keys)
\* as it was when the call began.
CexC1 ==
    \A t \in Calls :
        EndedInTraining(t) => res[t] = "TrainingFailed" /\ state = pre[t]

\* C2: a call with a non-absent image whose verification does not pass ends
\* with InvalidImage, with PersistedState unmodified, having gone through no
\* phase but Validating; while it is in flight neither PersistedState nor any
\* file or directory changes (no input-file write, no augmentation, no
\* training).
ThmC2 ==
    /\ [](\A t \in Calls :
            (Ended(t) /\ ~img[t].none /\ img[t].verify # "truthy")
                => /\ res[t] = "InvalidImage"
                   /\ state = pre[t]
                   /\ hist[t] = <<"Validating">>)
    /\ [][(\E t \in Calls : pc[t] # "idle" /\ ~img[t].none /\ img[t].verify # "truthy")
            => UNCHANGED <<state, fsVars>>]_vars

WitC2 ==
    \E t \in Calls :
        Ended(t) /\ ~img[t].none /\ img[t].verify = "false" /\ res[t] = "InvalidImage"

\* C3: a call with an absent image (None) ends with PillowImageRequired, and
\* while it is in flight no file, no directory and no key of PersistedState
\* changes.
ThmC3 ==
    /\ [](\A t \in Calls :
            (Ended(t) /\ img[t].none) => res[t] = "PillowImageRequired" /\ hist[t] = <<>>)
    /\ [][(\E t \in Calls : pc[t] # "idle" /\ img[t].none)
            => UNCHANGED <<state, fsVars>>]_vars

WitC3 == \E t \in Calls : Ended(t) /\ img[t].none /\ res[t] = "PillowImageRequired"

\* C4: a call with an image whose verification passes and whose training step
\* did not fail (the script exited 0) completes successfully, with the input
\* file holding the standard-format encoding of the image and
\* PersistedState.network equal to the bytes of adversarial.net.
CexC4 ==
    \A t \in Calls :
        (Ended(t) /\ img[t].verify = "truthy" /\ "Training" \in Range(hist[t])
            /\ res[t] # "TrainingFailed")
        => /\ res[t] = "ok"
           /\ InputName \in DOMAIN inputFiles
           /\ inputFiles[InputName] = Encode(img[t])
           /\ networkKey \in DOMAIN state
           /\ newNetworkAbsPath \in DOMAIN netFiles
           /\ state[networkKey] = netFiles[newNetworkAbsPath]

\* C5 (as amended): when gatherState has completed, PersistedState.aug_images
\* holds, as a multiset, exactly the bytes of the files of the
\* augmented-images tree whose name contains ".JPEG": the former sequence is
\* replaced, no such file is left out, and nothing else is in it.
ThmC5 ==
    \A t \in Calls :
        (Ended(t) /\ res[t] = "ok")
        => /\ augImagesKey \in DOMAIN state
           /\ BagOfSeq(state[augImagesKey])
                = BagOfFiles({f \in DOMAIN augFiles : HasJpegSuffix(f)}, augFiles)

\* C5 (as claimed): when gatherState has completed, PersistedState.aug_images
\* holds the bytes of every file of the augmented-images tree.
CexC5 ==
    \A t \in Calls :
        (Ended(t) /\ res[t] = "ok")
        => /\ augImagesKey \in DOMAIN state
           /\ BagOfSeq(state[augImagesKey]) = BagOfFiles(DOMAIN augFiles, augFiles)

WitC5 ==
    \E t \in Calls :
        /\ Ended(t) /\ res[t] = "ok"
        /\ augImagesKey \in DOMAIN pre[t] /\ pre[t][augImagesKey] # <<>>
        /\ \E f, g \in DOMAIN augFiles : HasJpegSuffix(f) /\ ~HasJpegSuffix(g)
        /\ state[augImagesKey] # <<>>

\* C6: initState and then at once gatherState, on a PersistedState that has a
\* non-empty aug_images and an empty augmented-images tree, leaves aug_images
\* with the same byte contents as before, as a multiset.
CexC6 ==
    \A t \in Calls :
        (mainPc = "roundtrip" /\ Ended(t) /\ res[t] = "ok"
            /\ augImagesKey \in DOMAIN pre[t] /\ pre[t][augImagesKey] # <<>>
            /\ DOMAIN augFiles = {})
        => BagOfSeq(state[augImagesKey]) = BagOfSeq(pre[t][augImagesKey])

\* C7: once initState has run under main (the handle is set), the four
\* working directories exist where the file writes go, the *AbsPath names.
CexC7 == mainPc \in {"serve", "crashed"} => AbsPaths \subseteq dirs

\* C8: PersistedState changes only in a step of gatherState of a call that
\* went through its training step: never at startup, never in a call that is
\* rejected, never in a call whose training step fails.
ThmC8 ==
    [][state' # state
        => \E t \in Calls : /\ pc[t] \in {"gather", "gather_reset", "gather_walk"}
                            /\ "Training" \in Range(hist[t])]_vars

WitC8 ==
    /\ mainPc = "serve"
    /\ \E t \in Calls : EndedInTraining(t) /\ res[t] # "ok" /\ state = pre[t]

\* C9: a call with a non-absent image goes through Validating, Writing-Input,
\* Augmenting, Training, Gathering in that order, and ends in failure only
\* from Validating, with InvalidImage, or from Training, with TrainingFailed.
\* Failures that the filesystem or the augmentation routine cause are left
\* aside here, so that what is checked is the code's own exits.
CexC9 ==
    \A t \in Calls :
        (Ended(t) /\ ~img[t].none /\ res[t] \notin {"FileNotFoundError", "GenError"})
        => /\ IsPrefix(hist[t], Phases)
           /\ res[t] = "ok" => hist[t] = Phases
           /\ res[t] # "ok" =>
                \/ Last(hist[t]) = "Validating" /\ res[t] = "InvalidImage"
                \/ Last(hist[t]) = "Training" /\ res[t] = "TrainingFailed"

\* C10: of two calls in flight together that both got through augmentation,
\* each goes on to gatherState unless its training fails, so that their
\* writes to PersistedState can interleave.
CexC10 ==
    \A t, u \in Calls :
        (t # u /\ EndedInTraining(t) /\ "Training" \in Range(hist[u]))
        => res[t] = "TrainingFailed"

\* C10, the shared input file: two calls with different verified images are
\* past augmentation, and both augmentations read the second call's image.
WitC10 ==
    /\ ~img[1].none /\ ~img[2].none /\ img[1].id # img[2].id
    /\ "Augmenting" \in Range(hist[1]) /\ "Augmenting" \in Range(hist[2])
    /\ pc[1] = "train" /\ pc[2] = "train"
    /\ consumed[1] = Encode(img[2]) /\ consumed[2] = Encode(img[2])

\* C11: a verification that returns a failing result or raises ends the call
\* with InvalidImage and no other error, and an image whose verification
\* reports success (it returns without raising and without a failing result)
\* is never rejected with InvalidImage.
CexC11 ==
    \A t \in Calls :
        (Ended(t) /\ ~img[t].none)
        => /\ img[t].verify \in {"false", "raises"} => res[t] = "InvalidImage"
           /\ img[t].verify \in {"truthy", "none"} => res[t] # "InvalidImage"

\* C12: files of the augmented-images tree accumulate: a call with a verified
\* image whose training step did not fail completes, and PersistedState's
\* aug_images then holds the bytes of every file of the tree whose name
\* contains ".JPEG", those that earlier calls left there included.
CexC12 ==
    \A t \in Calls :
        (Ended(t) /\ img[t].verify = "truthy" /\ "Training" \in Range(hist[t])
            /\ res[t] # "TrainingFailed"
            /\ \E f \in DOMAIN augFiles : HasJpegSuffix(f))
        => /\ res[t] = "ok"
           /\ augImagesKey \in DOMAIN state
           /\ \A f \in DOMAIN augFiles :
                HasJpegSuffix(f) => augFiles[f] \in Range(state[augImagesKey])

\* C13: once initState has run with the handle set, old.net holds the bytes
\* of PersistedState.network when that key is present and the empty byte
\* sequence when it is not, whether or not aug_images is present.  Runs that
\* end because the network directory is missing are left aside here.
CexC13 ==
    (mainPc \in {"serve", "crashed"} /\ mainErr # "FileNotFoundError")
    => /\ oldNetworkAbsPath \in DOMAIN netFiles
       /\ netFiles[oldNetworkAbsPath] = NetworkToWrite

\* C14: a call is in flight only when initState has returned and serve has
\* started, and it then finds the four working directories where its writes
\* go and old.net written.
CexC14 ==
    \A t \in Calls :
        pc[t] # "idle"
        => /\ mainPc = "serve" /\ mainErr = "none"
           /\ AbsPaths \subseteq dirs
           /\ oldNetworkAbsPath \in DOMAIN netFiles

ThmC16 ==
    /\ [][(c3 = "None" /\ mainPc' = "inited")
            => (mainErr' = "C3Required" /\ UNCHANGED fsVars)]_vars
    /\ [](mainErr = "C3Required" => (c3 = "None" /\ mainPc = "inited"))
    /\ [](mainPc \in {"init", "serve", "crashed"} => c3 = "set")

WitC16 ==
    /\ mainPc = "inited" /\ mainErr = "C3Required"
    /\ ~(AbsPaths \subseteq dirs)
    /\ oldNetworkAbsPath \notin DOMAIN netFiles

\* C17: old.net changes only in a run of initState: no step of acceptImage
\* and no step of gatherState writes it, so the prior weights handed to the
\* training script stay those of startup however PersistedState.network has
\* been replaced since.
OldNet == IF oldNetworkAbsPath \in DOMAIN netFiles THEN <<netFiles[oldNetworkAbsPath]>> ELSE <<>>

ThmC17 ==
    [][OldNet' # OldNet => (\A t \in Calls : pc[t] = "idle" /\ pc'[t] = "idle")
                            /\ mainPc' = "inited"]_vars

WitC17 ==
    \E t \in Calls :
        /\ Ended(t) /\ res[t] = "ok"
        /\ mainPc = "roundtrip" /\ mainErr = "none"
        /\ OldNet # <<>>
        /\ state[networkKey] # netFiles[oldNetworkAbsPath]

\* C18: during and after a run of gatherState, a run cut short by a failed
\* file read included, aug_images differs from what it was before the run
\* only when network already holds the bytes of the new weights file; and
\* when the read of the new weights file fails, both keys are as before.
AugOf(s) == IF augImagesKey \in DOMAIN s THEN <<s[augImagesKey]>> ELSE <<>>
InGather(t) ==
    \/ pc[t] \in {"gather", "gather_reset", "gather_walk"}
    \/ Ended(t) /\ "Gathering" \in Range(hist[t])

ThmC18 ==
    \A t \in Calls :
        InGather(t)
        => /\ AugOf(state) # AugOf(pre[t])
                => /\ networkKey \in DOMAIN state
                   /\ newNetworkAbsPath \in DOMAIN netFiles
                   /\ state[networkKey] = netFiles[newNetworkAbsPath]
           /\ (Ended(t) /\ res[t] \in {"FileNotFoundError", "AttributeError"})
                => state = pre[t]

WitC18 ==
    \E t \in Calls :
        /\ Ended(t) /\ res[t] = "OSError"
        /\ state[augImagesKey] # <<>>
        /\ AugOf(state) # AugOf(pre[t])
        /\ state[networkKey] = netFiles[newNetworkAbsPath]

====
